---- MODULE Spec2Model ----
(***************************************************************************)
(* Model of src/ernie.py: the QuantizedLayer weight-clustering transform.  *)
(*                                                                         *)
(* Numbers.  Layer weights, inputs and output-gradients are small          *)
(* integers.  Centroids, outputs and every other derived real number are   *)
(* exact rationals held as integers scaled by Scale (value * Scale), where *)
(* Scale is a common multiple of every denominator the computation can     *)
(* produce (K + 1 from the linear spacing, a cluster size from a k-means   *)
(* mean).  Floating-point rounding (float64 in numpy, float32 in the       *)
(* centroid table) is not modelled: arithmetic is exact.                   *)
(*                                                                         *)
(* Indices.  Cluster indices are the 0-based integers the code stores;     *)
(* a lookup of index k in a TLA+ sequence reads element k + 1.             *)
(***************************************************************************)
EXTENDS Integers, Sequences, FiniteSets, TLC

VARIABLES
    pc,                     \* position of the caller: see Next
    layer,                  \* the nn.Linear handed to __init__: [weight, bias]
    n_clusters,             \* argument n_clusters of __init__
    init_method,            \* argument init_method of __init__
    init_centroid_values,   \* local of __init__ (scaled), None before it is set
    cluster_centers_,       \* kmeans.cluster_centers_ of the local KMeans (scaled), None until fitted
    q_weight,               \* self.q_layer.weight, the index matrix, or None
    q_bias,                 \* self.q_layer.bias, or None
    centroid_table,         \* self.centroid_table.weight (scaled), or None
    grad,                   \* self.centroid_table.weight.grad, or None
    input_,                 \* argument of the last forward call, or None
    out,                    \* result of the last forward call (scaled), or None
    grad_out,               \* dLoss/dOut handed to the last backward call, or None
    raised,                 \* the exception that ended __init__, or None
    steps                   \* gradient steps taken so far

vars == <<pc, layer, n_clusters, init_method, init_centroid_values,
          cluster_centers_, q_weight, q_bias, centroid_table, grad, input_, out, grad_out, raised, steps>>

\* an attribute or local that does not exist (yet); no tensor of the program is empty
None == <<>>
\* best_inertia = None inside the Lloyd iteration; an inertia is never negative
NoInertia == 0 - 1

----------------------------------------------------------------------------
(* Bounds of the explored inputs.                                          *)

MaxWeight == 3      \* layer weights are drawn from 0 .. MaxWeight
MaxK == 3           \* n_clusters is drawn from 1 .. MaxK
MaxSteps == 1       \* gradient steps per layer

Shapes == {<<1, 2>>, <<2, 1>>, <<2, 2>>}        \* (out_features, in_features)
BiasVals == {0, 1}                              \* every bias entry of a layer
Methods == {"linear", "quadratic", "density"}
InputVecs == {<<0, 0>>, <<2, 1>>, <<1, -1>>}    \* forward inputs (prefix of length in_features)
GradVecs == {<<-1, -1>>, <<1, 0>>}             \* dLoss/dOut (prefix of length out_features)

----------------------------------------------------------------------------
(* Arithmetic helpers.                                                     *)

RECURSIVE Gcd(_, _)
Gcd(a, b) == IF b = 0 THEN a ELSE Gcd(b, a % b)

Lcm(a, b) == (a * b) \div Gcd(a, b)

RECURSIVE LcmUpTo(_)
LcmUpTo(n) == IF n <= 1 THEN 1 ELSE Lcm(LcmUpTo(n - 1), n)

MaxOf(S) == CHOOSE a \in S : \A b \in S : b <= a

MaxSamples == MaxOf({s[1] * s[2] : s \in Shapes})

\* common denominator of every rational the model computes
Scale == LcmUpTo(MaxOf({MaxSamples, MaxK + 1}))

RECURSIVE SeqSum(_)
SeqSum(s) == IF s = <<>> THEN 0 ELSE Head(s) + SeqSum(Tail(s))

Range(s) == {s[i] : i \in 1..Len(s)}

\* F applied to the value of v, v being evaluated once
Eval(v, F(_)) == CHOOSE r \in {F(x) : x \in {v}} : TRUE

----------------------------------------------------------------------------
(* Tensor helpers.                                                         *)

\* torch.Tensor.shape of a 2-d tensor held as a sequence of rows
Shape(M) == <<Len(M), Len(M[1])>>

\* torch.Tensor.flatten: row-major
RECURSIVE flatten(_)
flatten(M) == IF M = <<>> THEN <<>> ELSE Head(M) \o flatten(Tail(M))

\* torch.Tensor.view(shape) of a 1-d tensor: row-major
view(flat, shape) ==
    [i \in 1..shape[1] |-> [j \in 1..shape[2] |-> flat[(i - 1) * shape[2] + j]]]

----------------------------------------------------------------------------
(* Centroid initialisation: QuantizedLayer.init_centroid_weights.          *)

np_min(w) == CHOOSE a \in Range(w) : \A b \in Range(w) : a <= b
np_max(w) == CHOOSE a \in Range(w) : \A b \in Range(w) : b <= a

PrecisionFactor == 10

\* np.linspace(start, stop, num) for num >= 1: start + i * step, step = (stop - start) / (num - 1)
linspace(start, stop, num) ==
    IF num = 1 THEN <<start>>
    ELSE LET step == (stop - start) \div (num - 1)
         IN  [i \in 1..num |-> IF i = num THEN stop ELSE start + (i - 1) * step]

\* variant: an unsupported method falls through without raising
init_centroid_weights_never_raises(init_method_) == FALSE

\* does init_centroid_weights raise (the else branch, lines 90-91)?
init_centroid_weights_raises(init_method_) == init_method_ # "linear"

\* the exception of line 91: its type, its message format and the format's argument
UnsupportedMethod(init_method_) ==
    <<"ValueError", "Initialize method {} for centroids is unsupported", init_method_>>

\* variant: the spacing runs from the minimum to the maximum, margins included
init_centroid_weights_endpoints(weights, num_clusters, init_method_) ==
    LET min_weight == np_min(weights) * PrecisionFactor * Scale
        max_weight == np_max(weights) * PrecisionFactor * Scale
        spaced == linspace(min_weight, max_weight, num_clusters)
    IN  [i \in 1..num_clusters |-> spaced[i] \div PrecisionFactor]

\* the value returned at line 93 (scaled), for a supported method
init_centroid_weights(weights, num_clusters, init_method_) ==
    LET min_weight == np_min(weights) * PrecisionFactor * Scale
        max_weight == np_max(weights) * PrecisionFactor * Scale
        spacing == (max_weight - min_weight) \div (num_clusters + 1)
        spaced == linspace(min_weight + spacing, max_weight - spacing, num_clusters)
    IN  [i \in 1..num_clusters |-> spaced[i] \div PrecisionFactor]

----------------------------------------------------------------------------
(* sklearn.cluster.KMeans as called at lines 51-54 and 59: Lloyd's         *)
(* algorithm from the given seeds, n_init = 1, max_iter = 100, default     *)
(* tol = 1e-4, one feature per sample.  Labels are 0-based.  The library   *)
(* is the one the call's arguments belong to (it accepts                   *)
(* precompute_distances): each iteration labels the samples, recomputes    *)
(* the centers, remembers the centers of the iteration with the least      *)
(* inertia, and stops when the squared center shift is within              *)
(* tol * var(X); an empty cluster is moved onto a sample far from its      *)
(* center; fewer samples than clusters is a ValueError.                    *)

max_iter == 100
TolInverse == 10000     \* 1 / tol, tol = 1e-4

SqDist(x, c) == (x * Scale - c) * (x * Scale - c)

\* index (0-based) of the nearest center, the lowest index on a tie (argmin)
NearestCenter(x, centers) ==
    CHOOSE k \in 0..(Len(centers) - 1) :
        /\ \A j \in 0..(Len(centers) - 1) : SqDist(x, centers[k + 1]) <= SqDist(x, centers[j + 1])
        /\ \A j \in 0..(k - 1) : SqDist(x, centers[j + 1]) > SqDist(x, centers[k + 1])

\* E-step: label of every sample, its squared distance to that center, the inertia
labels_inertia(X, centers) ==
    LET labels == [i \in 1..Len(X) |-> NearestCenter(X[i], centers)]
        distances == [i \in 1..Len(X) |-> SqDist(X[i], centers[labels[i] + 1])]
    IN  [labels |-> labels, distances |-> distances, inertia |-> SeqSum(distances)]

\* distances.argsort()[::-1] (stable sort): sample positions by decreasing
\* distance, the later position first among equal distances
far_from_centers(distances) ==
    LET n == Len(distances)
        Before(q, p) == \/ distances[q] > distances[p]
                        \/ (distances[q] = distances[p] /\ q > p)
        Rank(p) == Cardinality({q \in 1..n : Before(q, p)})
    IN  [r \in 1..n |-> CHOOSE p \in 1..n : Rank(p) = r - 1]

\* variant: the sum of every cluster, the division by its size forgotten
centers_dense_sum(X, labels, K, distances) ==
    [kk \in 1..K |-> SeqSum([i \in 1..Len(X) |-> IF labels[i] = kk - 1 THEN X[i] * Scale ELSE 0])]

\* M-step: the mean of every cluster; the i-th empty cluster is placed on
\* the i-th sample farthest from its center
centers_dense(X, labels, K, distances) ==
    LET Members(k) == {i \in 1..Len(X) : labels[i] = k}
        empty_clusters == {k \in 0..(K - 1) : Members(k) = {}}
        far == far_from_centers(distances)
        EmptyPos(k) == Cardinality({e \in empty_clusters : e < k}) + 1
        Total(k) == SeqSum([i \in 1..Len(X) |-> IF labels[i] = k THEN X[i] * Scale ELSE 0])
    IN  [kk \in 1..K |->
            LET k == kk - 1
            IN  IF k \in empty_clusters
                THEN X[far[EmptyPos(k)]] * Scale
                ELSE Total(k) \div Cardinality(Members(k))]

\* squared_norm(centers_old - centers)
center_shift_total(centers_old, centers) ==
    SeqSum([k \in 1..Len(centers) |->
               (centers_old[k] - centers[k]) * (centers_old[k] - centers[k])])

\* center_shift_total <= tol * var(X), in integers:
\* shift / Scale^2 <= (1 / TolInverse) * (n * sum(x^2) - sum(x)^2) / n^2
WithinTolerance(X, shift) ==
    LET n == Len(X)
        varN == n * SeqSum([i \in 1..n |-> X[i] * X[i]]) - SeqSum(X) * SeqSum(X)
    IN  shift <= (varN * Scale * Scale) \div (n * n * TolInverse)

\* one pass of the loop body of the Lloyd iteration on the loop state st
LloydStep(X, K, st) ==
    Eval(labels_inertia(X, st.centers), LAMBDA e :
    Eval(centers_dense(X, e.labels, K, e.distances), LAMBDA centers :
        LET better == st.best_inertia = NoInertia \/ e.inertia < st.best_inertia
        IN  [centers |-> centers,
             best_labels |-> IF better THEN e.labels ELSE st.best_labels,
             best_centers |-> IF better THEN centers ELSE st.best_centers,
             best_inertia |-> IF better THEN e.inertia ELSE st.best_inertia,
             shift |-> center_shift_total(st.centers, centers)]))

\* for i in range(max_iter): ... if center_shift_total <= tol: break
RECURSIVE LloydLoop(_, _, _, _)
LloydLoop(X, K, st, i) ==
    IF i >= max_iter THEN st
    ELSE Eval(LloydStep(X, K, st), LAMBDA nxt :
             IF WithinTolerance(X, nxt.shift) THEN nxt ELSE LloydLoop(X, K, nxt, i + 1))

\* KMeans(...).fit raises when there are fewer samples than clusters
KMeans_fit_raises(X, K) == Len(X) < K

TooFewSamples == <<"ValueError", "n_samples={} should be >= n_clusters={}">>

\* variant: the centers of the fit with duplicate centers dropped
KMeans_fit_distinct(X, K, init) ==
    Eval(LloydLoop(X, K, [centers |-> init, best_labels |-> None,
                          best_centers |-> None, best_inertia |-> NoInertia,
                          shift |-> 0], 0), LAMBDA st :
        LET c == st.best_centers
            Keep(k) == \A j \in 1..(k - 1) : c[j] # c[k]
            kept == {k \in 1..Len(c) : Keep(k)}
            Nth(r) == CHOOSE k \in kept : Cardinality({j \in kept : j < k}) = r - 1
        IN  [cluster_centers_ |-> [r \in 1..Cardinality(kept) |-> c[Nth(r)]],
             labels_ |-> st.best_labels])

\* variant: the seeds are kept as the centers, the fit's result is not read
KMeans_fit_seeds(X, K, init) ==
    [cluster_centers_ |-> init, labels_ |-> labels_inertia(X, init).labels]

\* KMeans(K, init = init).fit(X): the fitted object
KMeans_fit(X, K, init) ==
    Eval(LloydLoop(X, K, [centers |-> init, best_labels |-> None,
                          best_centers |-> None, best_inertia |-> NoInertia,
                          shift |-> 0], 0), LAMBDA st :
        [cluster_centers_ |-> st.best_centers,
         labels_ |-> IF st.shift > 0
                     THEN labels_inertia(X, st.best_centers).labels
                     ELSE st.best_labels])

\* variant: 1-based cluster numbers
KMeans_predict_one_based(km, X) ==
    [i \in 1..Len(X) |-> labels_inertia(X, km.cluster_centers_).labels[i] + 1]

\* kmeans.predict(X): index of the nearest fitted center for every sample
KMeans_predict(km, X) == labels_inertia(X, km.cluster_centers_).labels

----------------------------------------------------------------------------
(* Forward pass and its gradient: QuantizedLayer.forward and autograd.     *)

\* nn.Embedding lookup self.centroid_table(idxs): one table row per index
embedding(table, idxs) == [p \in 1..Len(idxs) |-> table[idxs[p] + 1]]

\* input_.matmul(weight.t()) for a 1-d input
RECURSIVE dot(_, _)
dot(row, x) == IF row = <<>> THEN 0 ELSE Head(row) * Head(x) + dot(Tail(row), Tail(x))

\* variant: the bias of the copied layer is added
F_linear_with_bias(x, weights, bias) ==
    [i \in 1..Len(weights) |-> dot(weights[i], x) + bias[i] * Scale]

\* F.linear(input_, weights, bias=False): the product plus the scalar False
F_linear(x, weights, bias) == [i \in 1..Len(weights) |-> dot(weights[i], x)]

\* QuantizedLayer.forward, lines 105-108
forward(table, idx_matrix, bias, x) ==
    LET orig_shape == Shape(idx_matrix)
        weights == view(embedding(table, flatten(idx_matrix)), orig_shape)
    IN  F_linear(x, weights, bias)

\* gradient of F.linear with respect to its weight argument: outer product g x^T
linear_backward_weight(g, x) == [i \in 1..Len(g) |-> [j \in 1..Len(x) |-> g[i] * x[j]]]

\* variant: a position overwrites the gradient of the row it read
RECURSIVE index_put(_, _, _)
index_put(acc, idxs, vals) ==
    IF idxs = <<>> THEN acc
    ELSE index_put([acc EXCEPT ![Head(idxs) + 1] = Head(vals)], Tail(idxs), Tail(vals))

\* gradient of the embedding lookup: every position adds its gradient to the
\* table row it read
RECURSIVE index_add(_, _, _)
index_add(acc, idxs, vals) ==
    IF idxs = <<>> THEN acc
    ELSE index_add([acc EXCEPT ![Head(idxs) + 1] = @ + Head(vals)], Tail(idxs), Tail(vals))

\* loss.backward(): the gradient that reaches centroid_table.weight
backward(num_rows, idx_matrix, x, g) ==
    index_add([k \in 1..num_rows |-> 0], flatten(idx_matrix),
              flatten(linear_backward_weight(g, x)))

LearningRate == 1

\* variant: the out-of-place sub, whose result is dropped
sub(table, g) == table

\* f.data.sub_(f.grad.data * 1)
sub_(table, g) == [k \in 1..Len(table) |-> table[k] - g[k] * LearningRate * Scale]

----------------------------------------------------------------------------
(* The state machine.                                                      *)

Prefix(v, n) == [i \in 1..n |-> v[i]]

Layers ==
    UNION {{[weight |-> w, bias |-> [i \in 1..s[1] |-> b]] :
               w \in [1..s[1] -> [1..s[2] -> 0..MaxWeight]], b \in BiasVals} : s \in Shapes}

Init ==
    /\ pc = "start"
    /\ layer \in Layers
    /\ n_clusters \in 1..MaxK
    /\ init_method \in Methods
    /\ init_centroid_values = None
    /\ cluster_centers_ = None
    /\ q_weight = None
    /\ q_bias = None
    /\ centroid_table = None
    /\ grad = None
    /\ input_ = None
    /\ out = None
    /\ grad_out = None
    /\ raised = None
    /\ steps = 0

\* QuantizedLayer.__init__(layer, n_clusters, init_method), lines 45-62
Construct ==
    /\ pc = "start"
    /\ \E orig_shape \in {Shape(layer.weight)}, layer_weights \in {flatten(layer.weight)} :
          IF init_centroid_weights_raises(init_method)
          THEN /\ pc' = "raised"
               /\ raised' = UnsupportedMethod(init_method)
               /\ UNCHANGED <<init_centroid_values, cluster_centers_, q_weight,
                              q_bias, centroid_table>>
          ELSE \E init \in {init_centroid_weights(layer_weights, n_clusters, init_method)} :
               IF KMeans_fit_raises(layer_weights, n_clusters)
               THEN /\ pc' = "raised"
                    /\ raised' = TooFewSamples
                    /\ init_centroid_values' = init
                    /\ UNCHANGED <<cluster_centers_, q_weight, q_bias, centroid_table>>
               ELSE \E km \in {KMeans_fit(layer_weights, n_clusters, init)} :
                    \E centroid_idxs \in {KMeans_predict(km, layer_weights)} :
                       /\ pc' = "ready"
                       /\ raised' = None
                       /\ init_centroid_values' = init
                       /\ cluster_centers_' = km.cluster_centers_
                       /\ q_bias' = layer.bias
                       /\ q_weight' = view(centroid_idxs, orig_shape)
                       /\ centroid_table' = km.cluster_centers_
    /\ UNCHANGED <<layer, n_clusters, init_method, grad, input_, out, grad_out, steps>>

\* out = q_layer(input_), line 171
Forward ==
    /\ pc = "ready"
    /\ \E v \in InputVecs :
          LET x == Prefix(v, Shape(q_weight)[2])
          IN  /\ input_' = x
              /\ out' = forward(centroid_table, q_weight, q_bias, x)
    /\ pc' = "forwarded"
    /\ UNCHANGED <<layer, n_clusters, init_method, init_centroid_values,
                   cluster_centers_, q_weight, q_bias, centroid_table, grad, grad_out,
                   raised, steps>>

\* q_layer.zero_grad(), line 175: an existing gradient is zeroed, a missing one stays missing
ZeroGrad ==
    /\ pc = "forwarded"
    /\ grad' = IF grad = None THEN None ELSE [k \in 1..Len(grad) |-> 0]
    /\ pc' = "zeroed"
    /\ UNCHANGED <<layer, n_clusters, init_method, init_centroid_values,
                   cluster_centers_, q_weight, q_bias, centroid_table, input_, out,
                   grad_out, raised, steps>>

\* loss.backward(), line 176, for a loss whose gradient with respect to out is g
Backward ==
    /\ pc = "zeroed"
    /\ \E v \in GradVecs :
          LET g == Prefix(v, Shape(q_weight)[1])
              d == backward(Len(centroid_table), q_weight, input_, g)
          IN  /\ grad_out' = g
              /\ grad' = IF grad = None THEN d
                         ELSE [k \in 1..Len(d) |-> grad[k] + d[k]]
    /\ pc' = "backpropagated"
    /\ UNCHANGED <<layer, n_clusters, init_method, init_centroid_values,
                   cluster_centers_, q_weight, q_bias, centroid_table, input_, out,
                   raised, steps>>

\* variant: the step also re-assigns every position to its nearest updated centroid
StepReassign ==
    /\ pc = "backpropagated"
    /\ steps < MaxSteps
    /\ centroid_table' = sub_(centroid_table, grad)
    /\ q_weight' = view(labels_inertia(flatten(layer.weight), sub_(centroid_table, grad)).labels,
                        Shape(q_weight))
    /\ steps' = steps + 1
    /\ pc' = "ready"
    /\ UNCHANGED <<layer, n_clusters, init_method, init_centroid_values,
                   cluster_centers_, q_bias, grad, input_, out, grad_out, raised>>

\* the update loop over centroid_table.parameters(), lines 178-179
Step ==
    /\ pc = "backpropagated"
    /\ steps < MaxSteps
    /\ centroid_table' = sub_(centroid_table, grad)
    /\ steps' = steps + 1
    /\ pc' = "ready"
    /\ UNCHANGED <<layer, n_clusters, init_method, init_centroid_values,
                   cluster_centers_, q_weight, q_bias, grad, input_, out, grad_out, raised>>

Next == Construct \/ Forward \/ ZeroGrad \/ Backward \/ Step

Spec == Init /\ [][Next]_vars

----------------------------------------------------------------------------
(* Vocabulary of the properties.                                           *)

Constructed == pc \in {"ready", "forwarded", "zeroed", "backpropagated"}

Positions(M) == (1..Len(M)) \X (1..Len(M[1]))

\* the sum of the values of a function with a finite domain
RECURSIVE SumFn(_)
SumFn(f) ==
    IF DOMAIN f = {} THEN 0
    ELSE LET x == CHOOSE y \in DOMAIN f : TRUE
         IN  f[x] + SumFn([y \in DOMAIN f \ {x} |-> f[y]])

LayerValues == {layer.weight[p[1]][p[2]] : p \in Positions(layer.weight)}
MinLayerValue == CHOOSE a \in LayerValues : \A b \in LayerValues : a <= b
MaxLayerValue == CHOOSE a \in LayerValues : \A b \in LayerValues : b <= a

ClusterIds == 0..(n_clusters - 1)
PositionsOf(k) == {p \in Positions(q_weight) : q_weight[p[1]][p[2]] = k}
NonzeroOutputGradient == \E i \in 1..Len(grad_out) : grad_out[i] # 0

\* the sum of g[i] * x[j] over the positions (i, j) whose index is k
GradSum(k) == SumFn([p \in PositionsOf(k) |-> grad_out[p[1]] * input_[p[2]]])

----------------------------------------------------------------------------
(* C1: for a layer built with the 'linear' policy and a cluster count K    *)
(* between 1 and the number of distinct weight values, construction        *)
(* succeeds, the index matrix has the shape of the weight tensor and every *)
(* entry of it is an integer in [0, K).                                    *)
C1_IndexShapeAndRange ==
    (pc # "start" /\ init_method = "linear" /\ n_clusters <= Cardinality(LayerValues)) =>
        /\ Constructed
        /\ Shape(q_weight) = Shape(layer.weight)
        /\ \A p \in Positions(q_weight) : q_weight[p[1]][p[2]] \in 0..(n_clusters - 1)

C1_Witness ==
    /\ pc = "ready"
    /\ n_clusters >= 2
    /\ n_clusters <= Cardinality(LayerValues)
    /\ Shape(layer.weight) = <<1, 2>>
    /\ \E p \in Positions(q_weight) : q_weight[p[1]][p[2]] = n_clusters - 1

(* C2: in every state after construction, through forward passes and       *)
(* gradient steps, the centroid table has exactly K entries and every      *)
(* index matrix entry is a valid lookup into it.                           *)
C2_TableCardinality ==
    Constructed =>
        /\ Len(centroid_table) = n_clusters
        /\ \A p \in Positions(q_weight) :
              0 <= q_weight[p[1]][p[2]] /\ q_weight[p[1]][p[2]] < Len(centroid_table)

C2_Witness ==
    /\ pc = "forwarded"
    /\ steps >= 1
    /\ n_clusters >= 2
    /\ centroid_table # cluster_centers_

(* C3: a policy name other than 'linear' makes construction raise the       *)
(* error naming that policy before any clustering: the seeds, the fitted   *)
(* centers, the index matrix and the centroid table are never created.     *)
C3_UnsupportedMethodAborts ==
    (pc # "start" /\ init_method # "linear") =>
        /\ pc = "raised"
        /\ raised = UnsupportedMethod(init_method)
        /\ init_centroid_values = None
        /\ cluster_centers_ = None
        /\ q_weight = None
        /\ q_bias = None
        /\ centroid_table = None

C3_Witness == pc = "raised" /\ init_method = "quadratic" /\ raised[3] = "quadratic"

\* the seeds are K values, the first at m + (M - m)/(K + 1), consecutive ones
\* (M - m)/(K + 1) apart (m, M the least and greatest weight)
SeedsEvenlySpaced ==
    LET m == MinLayerValue * Scale
        M == MaxLayerValue * Scale
        v == init_centroid_values
    IN  /\ Len(v) = n_clusters
        /\ (n_clusters + 1) * (v[1] - m) = M - m
        /\ \A i \in 1..(n_clusters - 1) : (n_clusters + 1) * (v[i + 1] - v[i]) = M - m

(* C4 as stated: the 'linear' seeds are K evenly spaced values, every one  *)
(* of them strictly greater than the minimum and strictly less than the    *)
(* maximum weight.                                                         *)
C4_Original ==
    init_centroid_values # None =>
        /\ SeedsEvenlySpaced
        /\ \A i \in 1..Len(init_centroid_values) :
              /\ MinLayerValue * Scale < init_centroid_values[i]
              /\ init_centroid_values[i] < MaxLayerValue * Scale

(* C4 as amended: the 'linear' seeds are K evenly spaced values in         *)
(* [min, max]; they lie strictly inside when min < max, and all equal the  *)
(* single weight value when min = max.                                     *)
C4_Amended ==
    init_centroid_values # None =>
        /\ SeedsEvenlySpaced
        /\ \A i \in 1..Len(init_centroid_values) :
              IF MinLayerValue < MaxLayerValue
              THEN /\ MinLayerValue * Scale < init_centroid_values[i]
                   /\ init_centroid_values[i] < MaxLayerValue * Scale
              ELSE init_centroid_values[i] = MinLayerValue * Scale

C4_Witness ==
    /\ init_centroid_values # None
    /\ n_clusters >= 3
    /\ MaxLayerValue - MinLayerValue >= 2

IsGradientStep == pc = "backpropagated" /\ pc' = "ready"

(* C5 as stated: a gradient step with a nonzero output-gradient changes at *)
(* least one centroid value.                                               *)
C5_Original ==
    [][(IsGradientStep /\ NonzeroOutputGradient) => centroid_table' # centroid_table]_vars

(* C5 as amended: a gradient step with a nonzero output-gradient changes   *)
(* at least one centroid value exactly when some centroid k has a nonzero  *)
(* sum of g[i] * x[j] over the positions holding k.                        *)
C5_Amended ==
    [][(IsGradientStep /\ NonzeroOutputGradient) =>
          ((centroid_table' # centroid_table) <=> (\E k \in ClusterIds : GradSum(k) # 0))]_vars

C5_Witness ==
    /\ pc = "ready"
    /\ steps >= 1
    /\ NonzeroOutputGradient
    /\ \E k \in ClusterIds : GradSum(k) # 0
    /\ centroid_table # cluster_centers_

(* C6: once construction has created the index matrix, no operation        *)
(* (forward, zero_grad, backward, gradient step) changes an entry of it or *)
(* its shape.                                                              *)
C6_IndexMatrixFrozen == [][Constructed => q_weight' = q_weight]_vars

C6_Witness ==
    /\ pc = "backpropagated"
    /\ steps >= 1
    /\ centroid_table # cluster_centers_
    /\ q_weight # None

Scenario ==
    /\ layer.weight = <<<<0, 0>>, <<1, 3>>>>
    /\ n_clusters = 2
    /\ init_method = "linear"
    /\ Constructed

(* C7 as stated: in the scenario [[0,0],[1,3]], K = 2, the seeds are 1 and *)
(* 2, the first row of the index matrix holds one index and the second row *)
(* the other, the forward output on [2,1] has 2 elements and the gradient  *)
(* has one entry per centroid.                                             *)
C7_Original ==
    Scenario =>
        /\ init_centroid_values = <<Scale, 2 * Scale>>
        /\ q_weight[1][1] = q_weight[1][2]
        /\ q_weight[2][1] = q_weight[2][2]
        /\ q_weight[1][1] # q_weight[2][1]
        /\ (out # None /\ input_ = <<2, 1>>) => Len(out) = 2
        /\ grad # None => Len(grad) = 2

(* C7 as amended: in the scenario the seeds are 1 and 2, the weights       *)
(* 0, 0, 1 share the centroid 1/3 and the weight 3 has the centroid 3, so  *)
(* the index matrix is [[0,0],[0,1]]; the forward output on [2,1] is the   *)
(* 2-element [1, 11/3] and the gradient has one entry per centroid.        *)
C7_Amended ==
    Scenario =>
        /\ init_centroid_values = <<Scale, 2 * Scale>>
        /\ q_weight = <<<<0, 0>>, <<0, 1>>>>
        /\ 3 * cluster_centers_[1] = Scale /\ cluster_centers_[2] = 3 * Scale
        /\ steps = 0 => centroid_table = cluster_centers_
        /\ (out # None /\ input_ = <<2, 1>>) => Len(out) = 2
        /\ (out # None /\ input_ = <<2, 1>> /\ steps = 0) =>
              (out[1] = Scale /\ 3 * out[2] = 11 * Scale)
        /\ grad # None => Len(grad) = 2

C7_Witness ==
    /\ Scenario
    /\ pc = "ready"
    /\ steps = 1
    /\ input_ = <<2, 1>>
    /\ grad_out = <<0 - 1, 0 - 1>>

\* squared error of the dense matrix rebuilt from the index matrix and the table
ReconstructionError ==
    SumFn([p \in Positions(q_weight) |->
              (layer.weight[p[1]][p[2]] * Scale - centroid_table[q_weight[p[1]][p[2]] + 1])
            * (layer.weight[p[1]][p[2]] * Scale - centroid_table[q_weight[p[1]][p[2]] + 1])])

\* squared error when every weight is replaced by its nearest seed
NearestSeedError ==
    SumFn([p \in Positions(layer.weight) |->
              LET d == {(layer.weight[p[1]][p[2]] * Scale - init_centroid_values[k])
                      * (layer.weight[p[1]][p[2]] * Scale - init_centroid_values[k]) :
                            k \in 1..Len(init_centroid_values)}
              IN  CHOOSE a \in d : \A b \in d : a <= b])

(* C8: before any training, the squared error of the matrix rebuilt from   *)
(* the index matrix and the centroid table is no greater than the squared  *)
(* error of replacing each weight by its nearest seed.                     *)
C8_NoWorseThanSeeds ==
    (Constructed /\ steps = 0) => ReconstructionError <= NearestSeedError

C8_Witness ==
    /\ pc = "ready"
    /\ steps = 0
    /\ 0 < ReconstructionError
    /\ ReconstructionError < NearestSeedError

(* C9: the forward output is out[i] = sum over j of                        *)
(* centroid[index[i][j]] * x[j] with the current centroid values; the bias *)
(* of the layer plays no part.                                             *)
C9_ForwardIsBiasFreeLinear ==
    pc \in {"forwarded", "zeroed", "backpropagated"} =>
        /\ Len(out) = Len(q_weight)
        /\ \A i \in 1..Len(q_weight) :
              out[i] = SumFn([j \in 1..Len(input_) |->
                                 centroid_table[q_weight[i][j] + 1] * input_[j]])

C9_Witness ==
    /\ pc = "forwarded"
    /\ steps >= 1
    /\ q_bias[1] = 1
    /\ \E i \in 1..Len(q_weight) :
          out[i] # SumFn([j \in 1..Len(input_) |->
                             cluster_centers_[q_weight[i][j] + 1] * input_[j]])

GradientIsPositionSum == \A k \in ClusterIds : grad[k + 1] = GradSum(k)

(* C10: backward gives centroid k the sum of g[i] * x[j] over exactly the   *)
(* positions whose index is k, and the gradient step leaves a centroid     *)
(* that no position references unchanged.                                  *)
C10_GradientByPosition ==
    [][/\ (pc = "zeroed" /\ pc' = "backpropagated") => GradientIsPositionSum'
       /\ IsGradientStep =>
             \A k \in ClusterIds :
                PositionsOf(k) = {} => centroid_table'[k + 1] = centroid_table[k + 1]]_vars

C10_Witness ==
    /\ pc = "ready"
    /\ steps >= 1
    /\ \E k \in ClusterIds : PositionsOf(k) = {}
    /\ \E k \in ClusterIds : Cardinality(PositionsOf(k)) >= 2 /\ grad[k + 1] # 0
    /\ centroid_table # cluster_centers_

====
